---- MODULE Spec2Model ----
(***************************************************************************)
(* A state-machine model of the AutoMD geometry layout engine              *)
(* (src/autocadmd): the endpoint connection protocol (CPWEndpoints), the   *)
(* section builders (CPWStraight, CPWArc, CPWCap, SampleBoundary, Pad),    *)
(* and component orchestration (Component, SampleOutline,                  *)
(* TransmissionLine, Resonator).                                           *)
(*                                                                         *)
(* Numbers.  The code computes in float64.  The model computes in          *)
(* integers: every coordinate and every length is a whole number of ticks, *)
(* angles are whole degrees and, for geometry, multiples of 90 degrees, at *)
(* which the rounded rotation matrix of rotate_vec is exactly integral.    *)
(* pi is the rational PiNum / PiDen; products with pi, the factor 0.95 and *)
(* halving are floored to the tick.  A tolerance is a whole number of      *)
(* ticks; the default tolerance 1e-3 is below one tick, so two grid points *)
(* are within it exactly when they coincide (DefaultTol).                  *)
(*                                                                         *)
(* Objects.  A Section object is identified by its position in             *)
(* _sections_list: every object enters the dictionary `sections` and the   *)
(* list together (_add_section), so the dictionary maps a name to a        *)
(* position of the list (field ref).                                       *)
(***************************************************************************)
EXTENDS Integers, Sequences, FiniteSets, TLC

VARIABLES
    self,               \* the component's constructor attributes
    sections,           \* Component.sections: the dict, in insertion order
    sections_list,      \* Component._sections_list: the Section objects
    actual_length,      \* Component._actual_length
    mirror_operations,  \* Component._mirror_operations
    generated,          \* Component.generated
    steps,              \* number of operations called so far (bounded)
    last,               \* the last operation and its outcome
    ep,                 \* a free-standing CPWEndpoints object
    connects,           \* history: the connect calls on ep that succeeded
    frame               \* the locals of a method that is running step by step

vars == <<self, sections, sections_list, actual_length, mirror_operations,
          generated, steps, last, ep, connects, frame>>

compVars == <<self, sections, sections_list, actual_length,
              mirror_operations, generated>>

None == "None"

\* the None a point-valued result may be
NoPoint == <<>>

\* no method is running step by step
NoFrame == [pc |-> "none"]

(***************************************************************************)
(* Bounds of the model.                                                    *)
(***************************************************************************)
MaxTol == 2
MaxCoord == 2
MaxSteps == 4
MaxRefs == 2
MaxLengthK == 4
MaxHeightK == 6
MaxRadiusK == 1
MaxPathLen == 3
MaxLength == 3

(***************************************************************************)
(* Program constants.                                                      *)
(***************************************************************************)
DefaultTol == 0
PiNum == 355
PiDen == 113
MaxIter == 1000
ShrinkNum == 95
ShrinkDen == 100

(***************************************************************************)
(* utils.py                                                                *)
(***************************************************************************)
Abs(x) == IF x < 0 THEN -x ELSE x

\* The element of a one-element set.  Only({ body : x \in {e} }) is body
\* with the local x assigned e: e is computed once, as the code computes a
\* local once at its assignment.  In a chain of such assignments the first
\* one made is the outermost, so it is written last.
Only(S) == CHOOSE x \in S : TRUE

\* np.cos / np.sin of a multiple of 90 degrees after np.round(.., 10)
Cos(deg) ==
    CASE deg % 360 = 0   -> 1
      [] deg % 360 = 90  -> 0
      [] deg % 360 = 180 -> -1
      [] deg % 360 = 270 -> 0

Sin(deg) ==
    CASE deg % 360 = 0   -> 0
      [] deg % 360 = 90  -> 1
      [] deg % 360 = 180 -> 0
      [] deg % 360 = 270 -> -1

\* the square of distance_two: sqrt is monotone, so comparing squares
\* compares distances
distance_two_sq(p1, p2) ==
    (p1[1] - p2[1]) * (p1[1] - p2[1]) + (p1[2] - p2[2]) * (p1[2] - p2[2])

\* a rotation that turns nothing
rotate_vec_none(vec, theta) == vec

rotate_vec(vec, theta) ==
    << Cos(theta) * vec[1] - Sin(theta) * vec[2],
       Sin(theta) * vec[1] + Cos(theta) * vec[2] >>

rotate_points(points, theta) ==
    Only({ [i \in 1..Len(p) |-> rotate_vec(p[i], theta)] :
           p \in {points} })

\* (p1 + p2) * 0.5; the model's builders only halve even sums
center_two(p1, p2) == << (p2[1] + p1[1]) \div 2, (p2[2] + p1[2]) \div 2 >>

\* an ordering that compares x only
sort_endpoints_x(p1, p2) ==
    IF p1[1] > p2[1] THEN <<p2, p1>> ELSE <<p1, p2>>

\* the last elif has no else: were none of the three comparisons of x true,
\* the function would fall off its end and return None
sort_endpoints(p1, p2) ==
    IF p1[1] > p2[1] THEN <<p2, p1>>
    ELSE IF p1[1] < p2[1] THEN <<p1, p2>>
    ELSE IF p1[1] = p2[1]
    THEN (IF p1[2] > p2[2] THEN <<p2, p1>> ELSE <<p1, p2>>)
    ELSE NoPoint

Add(p, q) == << p[1] + q[1], p[2] + q[2] >>
Sub(p, q) == << p[1] - q[1], p[2] - q[2] >>
Scale(k, p) == << k * p[1], k * p[2] >>
Translate(points, d) ==
    Only({ [i \in 1..Len(p) |-> Add(p[i], dv)] : p \in {points}, dv \in {d} })

\* x * np.pi, floored to the tick
TimesPi(x) == (x * PiNum) \div PiDen

(***************************************************************************)
(* shapes.py: a Shape object.  points is the closed loop of vertices (the  *)
(* code stores it flattened: x at even, y at odd positions); bulge lists   *)
(* <<vertex index, subtended angle in degrees, sign>>, the code storing    *)
(* sign * tan(angle / 4); acad_object is None until the shape is drawn.    *)
(***************************************************************************)
PLine2d(points) ==
    [cls |-> "PLine2d", points |-> points \o <<points[1]>>,
     bulge |-> <<>>, acad_object |-> None]

PolyArc(points, angle) ==
    [cls |-> "PolyArc", points |-> points \o <<points[1]>>,
     bulge |-> << <<1, angle, 1>>, <<3, angle, -1>> >>, acad_object |-> None]

PolyBulge(points, angles_signs, bulge_inds) ==
    [cls |-> "PolyBulge", points |-> points \o <<points[1]>>,
     bulge |-> [i \in 1..Len(bulge_inds) |->
                  <<bulge_inds[i], angles_signs[i][1], angles_signs[i][2]>>],
     acad_object |-> None]

(***************************************************************************)
(* sections.py: CPWEndpoints                                               *)
(***************************************************************************)
\* a constructor that stores its two points the other way round
CPWEndpointsSwapped(left_lower, right_upper) ==
    [left_lower |-> right_upper, right_upper |-> left_lower,
     connected_ll |-> FALSE, connected_ru |-> FALSE]

CPWEndpoints(left_lower, right_upper) ==
    [left_lower |-> left_lower, right_upper |-> right_upper,
     connected_ll |-> FALSE, connected_ru |-> FALSE]

\* a getter that reports left_lower first whenever a flag is set
get_connected_ll(e) ==
    IF e.connected_ru /\ e.connected_ll THEN <<e.left_lower, e.right_upper>>
    ELSE IF e.connected_ll \/ e.connected_ru THEN <<e.left_lower, NoPoint>>
    ELSE <<NoPoint, NoPoint>>

get_connected(e) ==
    IF e.connected_ru /\ e.connected_ll THEN <<e.left_lower, e.right_upper>>
    ELSE IF e.connected_ll THEN <<e.left_lower, NoPoint>>
    ELSE IF e.connected_ru THEN <<e.right_upper, NoPoint>>
    ELSE <<NoPoint, NoPoint>>

\* a getter that ignores the flags
get_unconnected_any(e) == <<e.left_lower, e.right_upper>>

get_unconnected(e) ==
    IF ~e.connected_ru /\ ~e.connected_ll THEN <<e.left_lower, e.right_upper>>
    ELSE IF ~e.connected_ll THEN <<e.left_lower, NoPoint>>
    ELSE IF ~e.connected_ru THEN <<e.right_upper, NoPoint>>
    ELSE <<NoPoint, NoPoint>>

\* np.argmin over the two distances: the first index of the minimum
argmin2(d0, d1) == IF d0 <= d1 THEN 0 ELSE 1

\* connect with the already-connected test dropped
connect_again(e, anchor, tol) ==
    LET d0 == distance_two_sq(anchor, e.left_lower)
        d1 == distance_two_sq(anchor, e.right_upper)
        conn == argmin2(d0, d1)
    IN  IF conn = 0 /\ d0 <= tol * tol
        THEN [raised |-> FALSE, ep |-> [e EXCEPT !.connected_ll = TRUE]]
        ELSE IF conn = 1 /\ d1 <= tol * tol
        THEN [raised |-> FALSE, ep |-> [e EXCEPT !.connected_ru = TRUE]]
        ELSE [raised |-> TRUE, ep |-> e]

\* connect marking both docking points on success
connect_both(e, anchor, tol) ==
    LET d0 == distance_two_sq(anchor, e.left_lower)
        d1 == distance_two_sq(anchor, e.right_upper)
        conn == argmin2(d0, d1)
    IN  IF \/ conn = 0 /\ d0 <= tol * tol /\ ~e.connected_ll
           \/ conn = 1 /\ d1 <= tol * tol /\ ~e.connected_ru
        THEN [raised |-> FALSE,
              ep |-> [e EXCEPT !.connected_ll = TRUE, !.connected_ru = TRUE]]
        ELSE [raised |-> TRUE, ep |-> e]

\* connect marking the left lower docking point before it raises
connect_marking(e, anchor, tol) ==
    LET d0 == distance_two_sq(anchor, e.left_lower)
        d1 == distance_two_sq(anchor, e.right_upper)
        conn == argmin2(d0, d1)
    IN  IF conn = 0 /\ d0 <= tol * tol /\ ~e.connected_ll
        THEN [raised |-> FALSE, ep |-> [e EXCEPT !.connected_ll = TRUE]]
        ELSE IF conn = 1 /\ d1 <= tol * tol /\ ~e.connected_ru
        THEN [raised |-> FALSE, ep |-> [e EXCEPT !.connected_ru = TRUE]]
        ELSE [raised |-> TRUE, ep |-> [e EXCEPT !.connected_ll = TRUE]]

\* CPWEndpoints.connect: the outcome (raised) and the object afterwards
connect(e, anchor, tol) ==
    LET d0 == distance_two_sq(anchor, e.left_lower)
        d1 == distance_two_sq(anchor, e.right_upper)
        conn == argmin2(d0, d1)
        tols == << d0 <= tol * tol, d1 <= tol * tol >>
        status == << e.connected_ll, e.connected_ru >>
        available == << tols[1] /\ ~status[1], tols[2] /\ ~status[2] >>
    IN  IF conn = 0 /\ available[1]
        THEN [raised |-> FALSE, ep |-> [e EXCEPT !.connected_ll = TRUE]]
        ELSE IF conn = 1 /\ available[2]
        THEN [raised |-> FALSE, ep |-> [e EXCEPT !.connected_ru = TRUE]]
        ELSE [raised |-> TRUE, ep |-> e]

(***************************************************************************)
(* sections.py: the Section objects.  _angle is the attribute CPWArc sets  *)
(* (its signed span, kept here in degrees); the other classes do not set   *)
(* it, and reading it from them raises AttributeError (Missing).  Only the  *)
(* classes CPWStraight, CPWArc and Pad set endpoints; the others leave it  *)
(* None.                                                                   *)
(***************************************************************************)
Missing == "Missing"

HasAngleAttr(section) == section.cls = "CPWArc"

HasEndpoints(section) == section.cls \in {"CPWStraight", "CPWArc", "Pad"}

\* a name that leaves the index out
NameUnnumbered(base, i) == base

\* f'{base} {i}'
Name(base, i) == base \o " " \o ToString(i)

Section(cls, name, anchor) ==
    [cls |-> cls, name |-> name, anchor |-> anchor, length |-> 0,
     elements |-> <<>>, endpoints |-> None, angle |-> Missing,
     _angle |-> Missing, angle_span |-> Missing]

\* CPWSection.half_cpw_width; the model's widths are even
half_cpw_width(gap, width) == width \div 2 + gap

CPWStraight(name, anchor, angle, length, gap, width) ==
    LET len == Abs(length)
        hcw == half_cpw_width(gap, width)
        l0 == << <<0, 0 - hcw>>, <<len, 0 - hcw>>,
                 <<len, gap - hcw>>, <<0, gap - hcw>> >>
        u0 == Translate(l0, <<0, width + gap>>)
        Built(l_points, u_points) ==
            LET end_a == center_two(l_points[1], u_points[4])
                end_b == center_two(l_points[2], u_points[3])
            IN  Only({ [Section("CPWStraight", name, anchor) EXCEPT
                         !.angle = angle,
                         !.length = len,
                         !.elements = << PLine2d(l_points), PLine2d(u_points) >>,
                         !.endpoints = CPWEndpoints(srt[1], srt[2])] :
                       srt \in {sort_endpoints(end_a, end_b)} })
    IN  Only({ Built(l_points, u_points) :
               l_points \in {Translate(rotate_points(l0, angle), anchor)},
               u_points \in {Translate(rotate_points(u0, angle), anchor)} })

\* the arc length |angle * radius| with the angle in radians
ArcLength(deg, radius) == Abs((deg * PiNum * radius) \div (180 * PiDen))

CPWArc(name, anchor, radius, angle_span, straighten_other_end, gap, width) ==
    LET ang == angle_span[2] - angle_span[1]
        ii == radius - gap - width \div 2
        io == radius - width \div 2
        oi == radius + width \div 2
        oo == radius + width \div 2 + gap
        sincos == << Cos(ang), Sin(ang) >>
        inner0 == << <<ii, 0>>, <<io, 0>>, Scale(io, sincos), Scale(ii, sincos) >>
        outer0 == << <<oi, 0>>, <<oo, 0>>, Scale(oo, sincos), Scale(oi, sincos) >>
        an_ind == IF straighten_other_end THEN 2 ELSE 1
        rot_angle == angle_span[an_ind]
        Shift(innerR) ==
            Sub(anchor, Add(innerR[1], Scale(half_cpw_width(gap, width),
                                             << Cos(rot_angle), Sin(rot_angle) >>)))
        Built(inner_points, outer_points) ==
            LET l_end == center_two(inner_points[4], outer_points[3])
            IN  Only({ [Section("CPWArc", name, anchor) EXCEPT
                         !.angle_span = angle_span,
                         !._angle = ang,
                         !.length = ArcLength(ang, radius),
                         !.elements = << PolyArc(inner_points, ang),
                                         PolyArc(outer_points, ang) >>,
                         !.endpoints = CPWEndpoints(srt[1], srt[2])] :
                       srt \in {sort_endpoints(l_end, anchor)} })
    IN  Only({ Only({ Only({ Only({ Built(inner_points, outer_points) :
               outer_points \in {Translate(rotate_points(outer0, rot_angle), shift)} }) :
               inner_points \in {Translate(innerR, shift)} }) :
               shift \in {Shift(innerR)} }) :
               innerR \in {rotate_points(inner0, rot_angle)} })

CPWCap(name, anchor, angle, gap, width) ==
    LET hcw == half_cpw_width(gap, width)
        p0 == << <<0, 0>>, <<gap, 0>>, <<gap * 2, gap>>, <<gap * 2, gap + width>>,
                 <<gap, hcw * 2>>, <<0, hcw * 2>>, <<0, hcw * 2 - gap>>,
                 <<0, hcw * 2 - gap - width>> >>
    IN  Only({ [Section("CPWCap", name, anchor) EXCEPT
                    !.angle = angle,
                    !.length = gap,
                    !.elements = << PolyBulge(points,
                                              << <<90, 1>>, <<90, 1>>, <<180, -1>> >>,
                                              <<1, 3, 6>>) >>] :
               points \in {Translate(rotate_points(Translate(p0, <<0, 0 - hcw>>), angle), anchor)} })

SampleBoundary(name, anchor, thickness, width, height) ==
    LET ll_points == << <<0, 0>>, <<width - thickness, 0>>,
                        <<width - thickness, thickness>>, <<thickness, thickness>>,
                        <<thickness, height>>, <<0, height>> >>
        ru_points == << <<width - thickness, 0>>, <<width, 0>>, <<width, height>>,
                        <<thickness, height>>, <<thickness, height - thickness>>,
                        <<width - thickness, height - thickness>> >>
    IN  [Section("SampleBoundary", name, anchor) EXCEPT
            !.elements = << PLine2d(ll_points), PLine2d(ru_points) >>]

\* the model's pads have an even pad_width and a pad_height divisible by 4
Pad(name, anchor, pad_height, pad_width, thickness, adapter_len, width, gap, angle) ==
    LET left_cpw == << <<pad_width \div 2 - width \div 2, pad_height + adapter_len>>,
                       <<pad_width \div 2 - width \div 2 - gap,
                         pad_height + adapter_len>> >>
        right_cpw == << Add(left_cpw[1], <<width + gap, 0>>),
                        Add(left_cpw[2], <<width + gap, 0>>) >>
        ll0 == << <<0, 0>>, <<thickness, 0>>, <<thickness, pad_height>>,
                  left_cpw[1], left_cpw[2], <<0, pad_height>> >>
        ru0 == << <<thickness, 0>>, <<pad_width, 0>>, <<pad_width, pad_height>>,
                  right_cpw[1], right_cpw[2],
                  <<pad_width - thickness, pad_height>>,
                  <<pad_width - thickness, thickness>>, <<thickness, thickness>> >>
        Built(llR, ruR) ==
            Only({ [Section("Pad", name, anchor) EXCEPT
                     !.angle = angle,
                     !.elements = << PLine2d(Translate(llR, shift)),
                                     PLine2d(Translate(ruR, shift)) >>,
                     !.endpoints = CPWEndpoints(anchor, anchor)] :
                   shift \in {Sub(anchor, center_two(llR[4], ruR[5]))} })
    IN  Only({ Only({ Built(llR, ruR) :
               ruR \in {rotate_points(ru0, angle - 90)} }) :
               llR \in {rotate_points(ll0, angle - 90)} })

(***************************************************************************)
(* component.py.  The operators below work on a record                     *)
(*   [sections, list, len]                                                 *)
(* holding Component.sections (a sequence of [name, ref] in insertion      *)
(* order, ref a position of list), Component._sections_list and            *)
(* Component._actual_length.                                               *)
(***************************************************************************)
EmptyComp == [sections |-> <<>>, list |-> <<>>, len |-> 0]

HasKey(d, name) == \E i \in 1..Len(d) : d[i].name = name

\* d[name], for a name the dict holds
DictGet(d, name) == (CHOOSE i \in 1..Len(d) : d[i].name = name)

\* d[name] = ref: a held key keeps its place and takes the new value
DictSet(d, name, ref) ==
    IF HasKey(d, name)
    THEN [i \in 1..Len(d) |-> IF d[i].name = name THEN [d[i] EXCEPT !.ref = ref]
                                                   ELSE d[i]]
    ELSE Append(d, [name |-> name, ref |-> ref])

\* self.sections[name]: the Section object the dict holds under name
SectionOf(c, name) == c.list[c.sections[DictGet(c.sections, name)].ref]

\* list(self.sections.values())
Values(c) == [i \in 1..Len(c.sections) |-> c.list[c.sections[i].ref]]

\* _add_section without the length bookkeeping
add_section_nolen(c, section) ==
    Only({ [cv EXCEPT !.sections = DictSet(cv.sections, sv.name, Len(cv.list) + 1),
                      !.list = Append(cv.list, sv)] :
           cv \in {c}, sv \in {section} })

_add_section(c, section) ==
    Only({ [sections |-> DictSet(cv.sections, sv.name, Len(cv.list) + 1),
            list |-> Append(cv.list, sv),
            len |-> cv.len + sv.length] :
           cv \in {c}, sv \in {section} })

\* Component.mirror: the two points of the mirror axis that are queued
mirror(anchor, angle) == << anchor, Add(anchor, << Cos(angle), Sin(angle) >>) >>

\* what el.points[0::2] += shift[0]; el.points[1::2] += shift[1] leaves
MovedShape(el, shift) == [el EXCEPT !.points = Translate(el.points, shift)]

\* an element a mirrored draw has put in place of a Shape: the collaborator's
\* own object, which has neither points nor draw
AcadEntity(el) == [cls |-> "AcadEntity", of |-> el.points, acad_object |-> None]

IsShape(el) == el.cls # "AcadEntity"

\* the elements in the order move and draw visit them: <<ref, index>>
RECURSIVE ElementOrder(_, _)
ElementOrder(c, i) ==
    IF i > Len(c.sections) THEN <<>>
    ELSE LET ref == c.sections[i].ref
         IN  [k \in 1..Len(c.list[ref].elements) |-> <<ref, k>>]
             \o ElementOrder(c, i + 1)

\* the number of leading elements of the order that are Shape objects
RECURSIVE ShapePrefix(_, _, _)
ShapePrefix(c, order, k) ==
    IF k > Len(order) THEN Len(order)
    ELSE IF IsShape(c.list[order[k][1]].elements[order[k][2]])
    THEN ShapePrefix(c, order, k + 1)
    ELSE k - 1

InPrefix(order, n, ref, k) == \E j \in 1..n : order[j] = <<ref, k>>

\* Component.move: every element is shifted in turn; an element without
\* points raises AttributeError and leaves the later ones unmoved
move(c, shift) ==
    LET Moved(cv, order, n) ==
            [raised |-> IF n < Len(order) THEN "AttributeError" ELSE None,
             c |-> [cv EXCEPT !.list =
                      [r \in 1..Len(cv.list) |->
                         [cv.list[r] EXCEPT !.elements =
                            [k \in 1..Len(cv.list[r].elements) |->
                               IF InPrefix(order, n, r, k)
                               THEN MovedShape(cv.list[r].elements[k], shift)
                               ELSE cv.list[r].elements[k]]]]]]
    IN  Only({ Only({ Only({ Moved(cv, order, n) :
               n \in {ShapePrefix(cv, order, 1)} }) :
               order \in {ElementOrder(cv, 1)} }) :
               cv \in {c} })

\* what draw leaves of a Shape it has drawn: with no mirror queued the
\* Shape, holding its handle; otherwise the object Mirror returned
DrawnElement(el, nm) ==
    IF nm = 0 THEN [el EXCEPT !.acad_object = "live"] ELSE AcadEntity(el)

\* draw without the test of the generated flag
draw_ungated(c, gen, mirror_ops, erased_ok) ==
    LET nm == Len(mirror_ops)
        Drawn(cv, order, sp) ==
            LET stops == nm >= 2 /\ ~erased_ok /\ sp >= 1
                done == IF stops THEN 1 ELSE sp
            IN  [raised |-> IF stops THEN "COMError"
                            ELSE IF sp < Len(order) THEN "AttributeError" ELSE None,
                 draws |-> done,
                 clears |-> IF stops THEN 1 ELSE done * nm,
                 c |-> [cv EXCEPT !.list =
                          [r \in 1..Len(cv.list) |->
                             [cv.list[r] EXCEPT !.elements =
                                [k \in 1..Len(cv.list[r].elements) |->
                                   IF InPrefix(order, done, r, k)
                                   THEN DrawnElement(cv.list[r].elements[k], nm)
                                   ELSE cv.list[r].elements[k]]]]]]
    IN  Only({ Only({ Only({ Drawn(cv, order, sp) :
               sp \in {ShapePrefix(cv, order, 1)} }) :
               order \in {ElementOrder(cv, 1)} }) :
               cv \in {c} })

\* Component.draw.  Each element is drawn (one draw call), then for each
\* queued mirror operation replaced by the mirrored copy of its drawn
\* object, which is then deleted (one clear call).  erased_ok is the
\* collaborator's answer to Mirror on an object already deleted: it goes on
\* (TRUE) or raises (FALSE).  An element that is no Shape has no draw.
draw(c, gen, mirror_ops, erased_ok) ==
    IF gen THEN draw_ungated(c, gen, mirror_ops, erased_ok)
    ELSE [raised |-> None, draws |-> 0, clears |-> 0, c |-> c]

(***************************************************************************)
(* sample_outline.py                                                       *)
(***************************************************************************)
\* the outcome of a generate call: the exception raised (or None), the
\* value returned, whether generated was set, the attributes and the sections
SampleOutline_generate(c, s) ==
    [raised |-> None, ret |-> "None", sets_generated |-> TRUE, s |-> s,
     c |-> _add_section(c, SampleBoundary("sample border", s.anchor, s.thickness,
                                          s.max_width, s.max_height))]

(***************************************************************************)
(* resonator.py                                                            *)
(***************************************************************************)
_generate_transmission_coupler(c, s) ==
    _add_section(c, CPWStraight("transmission line coupler", <<0, 0>>, 270,
                                s.coupling_length, s.gap, s.width))

_generate_spacer_line(c, s) ==
    Only({ Only({ Only({ _add_section(_add_section(cv, spacer_arc), spacer_line) :
           spacer_line \in {CPWStraight("spacer straight", spacer_arc.endpoints.right_upper, 0,
                     s.coupling_spacer, s.gap, s.width)} }) :
           spacer_arc \in {CPWArc("spacer arc",
                SectionOf(cv, "transmission line coupler").endpoints.left_lower,
                s.arc_radius, <<180, 270>>, FALSE, s.gap, s.width)} }) :
           cv \in {c} })

\* the length the meanders must take up, for a straight height m_height
MLen(s, used, m_height, final_component_len) ==
    IF s.end = "arc"
    THEN s.length - (used + TimesPi(2 * s.arc_radius) + m_height \div 2
                     - s.arc_radius + final_component_len)
    ELSE s.length - (used + TimesPi(3 * s.arc_radius) \div 2 + m_height \div 2
                     - s.arc_radius + final_component_len)

\* m_height *= 0.95, floored to the tick
Shrink(m_height) == (m_height * ShrinkNum) \div ShrinkDen

\* n_segments = int(np.floor(m_len / l_segment))
NSegments(s, used, final_component_len, m_height) ==
    MLen(s, used, m_height, final_component_len)
        \div (TimesPi(s.arc_radius) + m_height)

\* m_len - n_segments * l_segment
Residue(s, used, final_component_len, m_height) ==
    MLen(s, used, m_height, final_component_len)
        - NSegments(s, used, final_component_len, m_height)
          * (TimesPi(s.arc_radius) + m_height)

\* the while loop of _generate_meanders, from its state (m_height, count).
\* Once shrinking no longer changes m_height every further iteration
\* repeats the rejected one, and the loop runs on to count = MaxIter: that
\* end state is given at once.
RECURSIVE MeanderSearch(_, _, _, _, _)
MeanderSearch(s, used, final_component_len, m_height, count) ==
    IF count >= MaxIter
    THEN [success |-> FALSE, n_segments |-> 0, m_height |-> m_height,
          last_height |-> 0, count |-> count]
    ELSE IF Residue(s, used, final_component_len, m_height) <= m_height
    THEN [success |-> TRUE,
          n_segments |-> NSegments(s, used, final_component_len, m_height),
          m_height |-> m_height,
          last_height |-> Residue(s, used, final_component_len, m_height),
          count |-> count + 1]
    ELSE IF Shrink(m_height) = m_height
    THEN [success |-> FALSE, n_segments |-> 0, m_height |-> m_height,
          last_height |-> 0, count |-> MaxIter]
    ELSE MeanderSearch(s, used, final_component_len, Shrink(m_height), count + 1)

\* the for loop of _generate_meanders, from its index i
RECURSIVE MeanderSegments(_, _, _, _)
MeanderSegments(c, s, r, i) ==
    IF i >= r.n_segments + 1 THEN c
    ELSE LET prev == c.list[Len(c.list)].endpoints
             even == i % 2 = 0
             angle_span == IF even THEN <<180, 0>> ELSE <<180, 360>>
             angle == IF even THEN 270 ELSE 90
             anchor == IF even THEN prev.right_upper ELSE prev.left_lower
             length == IF i = r.n_segments THEN r.last_height ELSE r.m_height
         IN  Only({ Only({ Only({ Only({ MeanderSegments(c2, s, r, n) :
                    n \in {i + 1} }) :
                    c2 \in {_add_section(_add_section(c, segment_arc), segment_straight)} }) :
                    segment_straight \in {CPWStraight(Name("segment straight", i + 1),
                              segment_arc.endpoints.right_upper, angle, length,
                              s.gap, s.width)} }) :
                    segment_arc \in {CPWArc(Name("segment arc", i + 1), anchor, s.arc_radius,
                         angle_span, FALSE, s.gap, s.width)} })

\* a closing arc whose span ignores the parity of n_segments
final_arc_span_even(n_segments) == <<180, 270>>

\* the angle span of the closing arc, by the parity of n_segments
final_arc_span(n_segments) ==
    IF n_segments % 2 = 0 THEN <<180, 270>> ELSE <<180, 90>>

\* _generate_meanders after its while loop has accepted with the locals r
\* (m_height, n_segments, last_height): the entry arc and straight, the
\* segments and, for end style 'arc', the closing arc
MeanderLayout(c, s, r) ==
    LET Entry(cv) ==
            Only({ _add_section(_add_section(cv, meander_entry_arc),
                        CPWStraight("meander entry straight",
                                    meander_entry_arc.endpoints.right_upper, 90,
                                    r.m_height \div 2 - s.arc_radius, s.gap, s.width)) :
                   meander_entry_arc \in {CPWArc("meander entry arc",
                        SectionOf(cv, "spacer straight").endpoints.right_upper,
                        s.arc_radius, <<270, 360>>, FALSE, s.gap, s.width)} })
        Final(c2) ==
            IF s.end = "arc"
            THEN _add_section(c2,
                    CPWArc("final arc", c2.list[Len(c2.list)].endpoints.right_upper,
                           s.arc_radius, final_arc_span(r.n_segments),
                           FALSE, s.gap, s.width))
            ELSE c2
    IN  Only({ Only({ Only({ Final(c2) :
                             c2 \in {MeanderSegments(c1, s, r, 0)} }) :
                      c1 \in {Entry(cv)} }) :
               cv \in {c} })

\* _generate_meanders: end style 'none' binds no m_len, and the first
\* iteration raises UnboundLocalError
_generate_meanders(c, s, final_component_len) ==
    IF s.end = "none"
    THEN [raised |-> "UnboundLocalError", ret |-> "None", c |-> c,
          n_segments |-> s.n_segments]
    ELSE
    Only({ Only({ IF ~r.success
                  THEN [raised |-> None, ret |-> "False", c |-> cv,
                        n_segments |-> s.n_segments]
                  ELSE Only({ [raised |-> None, ret |-> "True", c |-> c3,
                               n_segments |-> r.n_segments] :
                              c3 \in {MeanderLayout(cv, s, r)} }) :
                  r \in {MeanderSearch(s, cv.len, final_component_len,
                                       s.max_height - 2 * s.arc_radius, 0)} }) :
           cv \in {c} })

_generate_end_cap(c, s, n_segments) ==
    Only({ LET prev == cv.list[Len(cv.list)].endpoints
            even == n_segments % 2 = 0
        IN  _add_section(cv, CPWCap("end cap",
                                    IF even THEN prev.left_lower ELSE prev.right_upper,
                                    IF even THEN 270 ELSE 90, s.gap, s.width)) :
           cv \in {c} })

\* a failure branch that empties the dict and forgets the list
DiscardDictOnly(c) == [c EXCEPT !.sections = <<>>]

\* the failure branch of Resonator.generate
Discard(c) == [c EXCEPT !.sections = <<>>, !.list = <<>>]

Resonator_generate(c, s) ==
    Only({ Only({ IF m.raised # None
         THEN [raised |-> m.raised, ret |-> "None", sets_generated |-> FALSE,
               s |-> s, c |-> m.c]
         ELSE IF m.ret = "False"
         THEN [raised |-> None, ret |-> "False", sets_generated |-> FALSE,
               s |-> s, c |-> Discard(m.c)]
         ELSE Only({ [raised |-> mv.raised, ret |-> "None", sets_generated |-> FALSE,
                       s |-> [s EXCEPT !.n_segments = m.n_segments], c |-> mv.c] :
                     mv \in {move(_generate_end_cap(m.c, s, m.n_segments), s.anchor)} }) :
           m \in {_generate_meanders(c2, s, s.gap)} }) :
           c2 \in {_generate_spacer_line(_generate_transmission_coupler(c, s), s)} })

(***************************************************************************)
(* transmissionline.py                                                     *)
(***************************************************************************)
_generate_pads(c, s) ==
    LET ll_pad == Pad("left lower pad", s.start, s.pad_size[2], s.pad_size[1],
                      s.pad_thickness, s.pad_size[2] \div 4, s.width, s.gap, 90)
        ru_pad == Pad("right upper pad", s.end, s.pad_size[2], s.pad_size[1],
                      s.pad_thickness, s.pad_size[2] \div 4, s.width, s.gap, 270)
    IN  _add_section(_add_section(c, ll_pad), ru_pad)

\* _generate_standard_path: the exception raised, or the path.  Its asserts
\* run in order; reading _angle from a section that does not set it raises.
_generate_standard_path(c, s) ==
    LET dist == Sub(s.end, s.start)
        ll_angle == SectionOf(c, "left lower pad")._angle
        ru_angle == SectionOf(c, "right upper pad")._angle
        center_dist_start == Sub(<<s.max_width \div 2, s.max_height \div 2>>, s.start)
        path ==
            << [element |-> "right", radius |-> s.arc_radius, angle |-> 90],
               [element |-> "straight",
                length |-> center_dist_start[1] - s.center_offset - 2 * s.arc_radius],
               [element |-> "left", radius |-> s.arc_radius, angle |-> 90],
               [element |-> "straight", length |-> Abs(dist[2]) - 4 * s.arc_radius],
               [element |-> "right", radius |-> s.arc_radius, angle |-> 90],
               [element |-> "straight",
                length |-> center_dist_start[1] + s.center_offset - 2 * s.arc_radius],
               [element |-> "left", radius |-> s.arc_radius, angle |-> 90] >>
    IN  IF ~(Abs(dist[1]) >= s.arc_radius * 2 \/ dist[1] = 0)
        THEN [raised |-> "AssertionError", path |-> <<>>]
        ELSE IF ~(Abs(dist[2]) >= s.arc_radius * 2 \/ dist[2] = 0)
        THEN [raised |-> "AssertionError", path |-> <<>>]
        ELSE IF dist[1] + dist[2] = 0
        THEN [raised |-> "AssertionError", path |-> <<>>]
        ELSE IF ~HasAngleAttr(SectionOf(c, "left lower pad"))
        THEN [raised |-> "AttributeError", path |-> <<>>]
        ELSE IF ~(45 < ll_angle /\ ll_angle < 135)
        THEN [raised |-> "AssertionError", path |-> <<>>]
        ELSE IF ~HasAngleAttr(SectionOf(c, "right upper pad"))
        THEN [raised |-> "AttributeError", path |-> <<>>]
        ELSE IF ~(225 < ru_angle /\ ru_angle < 315)
        THEN [raised |-> "AssertionError", path |-> <<>>]
        ELSE IF ~(center_dist_start[1] - s.center_offset > s.arc_radius * 2)
        THEN [raised |-> "AssertionError", path |-> <<>>]
        ELSE [raised |-> None, path |-> path]

\* the constructor arguments one step of a path gives, at the running heading
ElementArgs(info, current_angle) ==
    IF info.element = "straight"
    THEN [cls |-> "CPWStraight", angle |-> current_angle, length |-> info.length]
    ELSE IF info.element = "right"
    THEN [cls |-> "CPWArc", radius |-> info.radius,
          angle_span |-> <<current_angle + info.angle + 90, current_angle + 90>>,
          straighten_other_end |-> TRUE]
    ELSE [cls |-> "CPWArc", radius |-> info.radius,
          angle_span |-> <<current_angle - 90, current_angle + info.angle - 90>>,
          straighten_other_end |-> FALSE]

\* the section one step of a path describes, at the running anchor and heading
PathElement(info, cnum, current_anchor, current_angle, s) ==
    Only({ IF a.cls = "CPWStraight"
           THEN CPWStraight(Name("cpw element", cnum), current_anchor, a.angle,
                            a.length, s.gap, s.width)
           ELSE CPWArc(Name("cpw element", cnum), current_anchor, a.radius,
                       a.angle_span, a.straighten_other_end, s.gap, s.width) :
           a \in {ElementArgs(info, current_angle)} })

\* a heading update that turns left on every turn
PathAngleLeft(info, current_angle) ==
    IF info.element = "straight" THEN current_angle
    ELSE current_angle + info.angle

\* the running heading after a step
PathAngle(info, current_angle) ==
    IF info.element = "right" THEN current_angle - info.angle
    ELSE IF info.element = "left" THEN current_angle + info.angle
    ELSE current_angle

\* the component with the endpoints of the object at position ref replaced
WithEndpoints(c, ref, e) ==
    [c EXCEPT !.list = [c.list EXCEPT ![ref] = [@ EXCEPT !.endpoints = e]]]

\* the section an iteration connects the new one to: the start pad in the
\* first iteration (c == 1), the last section of the list afterwards
PrevRef(c, k) ==
    IF k = 1 THEN c.sections[DictGet(c.sections, "left lower pad")].ref
    ELSE Len(c.list)

\* the running anchor after an iteration: current_anchor, _ =
\* element.endpoints.get_unconnected()
NextAnchor(e) == get_unconnected(e)[1]

\* one iteration of the for loop of _generate_cpw_from_path, the k-th: the
\* exception it raises if any, the component, and the locals after it
PathIteration(c, s, info, k, current_anchor, current_angle) ==
    LET Joined(element, prevConn, elConn, next_angle) ==
            IF prevConn.raised
            THEN [raised |-> "Exception", c |-> c,
                  current_anchor |-> current_anchor, current_angle |-> next_angle]
            ELSE IF elConn.raised
            THEN [raised |-> "Exception",
                  c |-> WithEndpoints(c, PrevRef(c, k), prevConn.ep),
                  current_anchor |-> current_anchor, current_angle |-> next_angle]
            ELSE IF NextAnchor(elConn.ep) = NoPoint
            THEN [raised |-> "AssertionError",
                  c |-> WithEndpoints(c, PrevRef(c, k), prevConn.ep),
                  current_anchor |-> NoPoint, current_angle |-> next_angle]
            ELSE [raised |-> None,
                  c |-> _add_section(WithEndpoints(c, PrevRef(c, k), prevConn.ep),
                                     [element EXCEPT !.endpoints = elConn.ep]),
                  current_anchor |-> NextAnchor(elConn.ep),
                  current_angle |-> next_angle]
    IN  Only({ Only({ Only({ Joined(element, prevConn, elConn, next_angle) :
               elConn \in {connect(element.endpoints, current_anchor, DefaultTol)} }) :
               prevConn \in {connect(c.list[PrevRef(c, k)].endpoints, current_anchor,
                                     DefaultTol)},
               next_angle \in {PathAngle(info, current_angle)} }) :
               element \in {PathElement(info, k, current_anchor, current_angle, s)} })

\* the for loop of _generate_cpw_from_path, from step k of the path
RECURSIVE PathSteps(_, _, _, _, _, _)
PathSteps(c, s, path, k, current_anchor, current_angle) ==
    IF k > Len(path) THEN [raised |-> None, c |-> c]
    ELSE Only({ IF it.raised # None
                THEN [raised |-> it.raised, c |-> it.c]
                ELSE PathSteps(it.c, s, path, k + 1, it.current_anchor,
                               it.current_angle) :
                it \in {PathIteration(c, s, path[k], k, current_anchor,
                                      current_angle)} })

\* _generate_cpw_from_path: the start anchor and heading are read from the
\* section named 'left lower pad'
_generate_cpw_from_path(c, s, path) ==
    LET From(cv, pad) ==
            IF ~HasEndpoints(pad) \/ ~HasAngleAttr(pad)
            THEN [raised |-> "AttributeError", c |-> cv]
            ELSE PathSteps(cv, s, path, 1, pad.endpoints.right_upper, pad._angle)
    IN  Only({ IF ~HasKey(cv.sections, "left lower pad")
               THEN [raised |-> "KeyError", c |-> cv]
               ELSE Only({ From(cv, pad) : pad \in {SectionOf(cv, "left lower pad")} }) :
               cv \in {c} })

TransmissionLine_generate(c, s) ==
    Only({ Only({ IF sp.raised # None
         THEN [raised |-> sp.raised, ret |-> "None", sets_generated |-> FALSE,
               s |-> s, c |-> c1]
         ELSE Only({ [raised |-> gp.raised, ret |-> "None", sets_generated |-> FALSE,
                    s |-> [s EXCEPT !.path = sp.path], c |-> gp.c] :
                     gp \in {_generate_cpw_from_path(c1, s, sp.path)} }) :
           sp \in {_generate_standard_path(c1, s)} }) :
           c1 \in {_generate_pads(c, s)} })

(***************************************************************************)
(* The components the model constructs (the constructors' arguments).      *)
(***************************************************************************)
Outlines ==
    { [cls |-> "SampleOutline", max_height |-> 8, max_width |-> 8,
       anchor |-> <<0, 0>>, thickness |-> 1] }

\* TransmissionLine.__init__ sorts its two pad anchors
Line(start, end, radius, offset) ==
    LET srt == sort_endpoints(start, end)
    IN  [cls |-> "TransmissionLine", max_height |-> 40, max_width |-> 40,
         anchor |-> <<0, 0>>, start |-> srt[1], end |-> srt[2],
         pad_size |-> <<4, 4>>, pad_thickness |-> 1, center_offset |-> offset,
         gap |-> 1, width |-> 2, arc_radius |-> radius, path |-> <<>>]

Lines ==
    { Line(<<0, 0>>, <<40, 40>>, 4, 2), Line(<<40, 40>>, <<0, 0>>, 4, 0),
      Line(<<0, 0>>, <<2, 40>>, 4, 0) }

\* Resonator.__init__ asserts max_height > arc_radius * 2.1
Resonator(length, max_height, radius, end, anchor) ==
    [cls |-> "Resonator", max_height |-> max_height, max_width |-> 200,
     anchor |-> anchor, length |-> length, gap |-> 1, width |-> 2,
     arc_radius |-> radius, coupling_length |-> 10, coupling_spacer |-> 10,
     end |-> end, n_segments |-> None]

Resonators ==
    { Resonator(400, 100, 20, end, <<5, 0>>) : end \in {"arc", "straight", "none"} }
    \cup
    { Resonator(120, 100, 20, end, <<0, 0>>) : end \in {"arc", "straight"} }

\* the sections handed to _add_section from outside a generate call
AddCandidates ==
    { CPWArc("left lower pad", <<0, 0>>, 4, <<0, 90>>, FALSE, 1, 2),
      CPWStraight("extra", <<0, 0>>, 0, 3, 1, 2) }

\* the paths handed to _generate_cpw_from_path from outside a generate call
Paths ==
    { << [element |-> "straight", length |-> 0],
         [element |-> "straight", length |-> 3] >>,
      << [element |-> "right", radius |-> 4, angle |-> 90],
         [element |-> "straight", length |-> 3],
         [element |-> "left", radius |-> 4, angle |-> 90] >> }

Comp == [sections |-> sections, list |-> sections_list, len |-> actual_length]

SetComp(c) ==
    /\ sections' = c.sections
    /\ sections_list' = c.list
    /\ actual_length' = c.len

Outcome(op, raised, ret, draws, clears) ==
    [op |-> op, raised |-> raised, ret |-> ret, draws |-> draws, clears |-> clears]

\* Component.__init__
Init ==
    /\ self \in Outlines \cup Lines \cup Resonators
    /\ sections = <<>>
    /\ sections_list = <<>>
    /\ actual_length = 0
    /\ mirror_operations = <<>>
    /\ generated = FALSE
    /\ steps = 0
    /\ last = Outcome("init", None, "None", 0, 0)
    /\ ep = CPWEndpoints(<<0, 0>>, <<0, 0>>)
    /\ connects = 0
    /\ frame = NoFrame

\* one more operation is called on the component
Step ==
    /\ steps < MaxSteps
    /\ steps' = steps + 1
    /\ UNCHANGED <<ep, connects, frame>>

Generate(r) ==
    /\ Step
    /\ SetComp(r.c)
    /\ self' = r.s
    /\ generated' = (generated \/ r.sets_generated)
    /\ last' = Outcome("generate", r.raised, r.ret, 0, 0)
    /\ UNCHANGED mirror_operations

GenerateSampleOutline ==
    /\ self.cls = "SampleOutline"
    /\ \E r \in {SampleOutline_generate(Comp, self)} : Generate(r)

GenerateTransmissionLine ==
    /\ self.cls = "TransmissionLine"
    /\ \E r \in {TransmissionLine_generate(Comp, self)} : Generate(r)

GenerateResonator ==
    /\ self.cls = "Resonator"
    /\ \E r \in {Resonator_generate(Comp, self)} : Generate(r)

AddSection ==
    /\ Step
    /\ \E section \in AddCandidates :
          /\ SetComp(_add_section(Comp, section))
          /\ last' = Outcome("_add_section", None, section.name, 0, 0)
    /\ UNCHANGED <<self, mirror_operations, generated>>

GenerateCpwFromPath ==
    /\ Step
    /\ self.cls = "TransmissionLine"
    /\ \E path \in Paths :
          \E r \in {_generate_cpw_from_path(Comp, self, path)} :
              /\ SetComp(r.c)
              /\ last' = Outcome("_generate_cpw_from_path", r.raised, "None", 0, 0)
    /\ UNCHANGED <<self, mirror_operations, generated>>

Draw ==
    /\ Step
    /\ \E erased_ok \in BOOLEAN :
          \E r \in {draw(Comp, generated, mirror_operations, erased_ok)} :
              /\ SetComp(r.c)
              /\ last' = Outcome("draw", r.raised, "None", r.draws, r.clears)
    /\ UNCHANGED <<self, mirror_operations, generated>>

Move ==
    /\ Step
    /\ \E r \in {move(Comp, <<1, -2>>)} :
          /\ SetComp(r.c)
          /\ last' = Outcome("move", r.raised, "None", 0, 0)
    /\ UNCHANGED <<self, mirror_operations, generated>>

Mirror ==
    /\ Step
    /\ \E angle \in {0, 90} :
          mirror_operations' = Append(mirror_operations, mirror(self.anchor, angle))
    /\ last' = Outcome("mirror", None, "None", 0, 0)
    /\ UNCHANGED <<self, sections, sections_list, actual_length, generated>>

\* the sections whose endpoints a caller reaches for: the first MaxRefs
\* entries of the dict that have endpoints
Reached(i) ==
    /\ i \in 1..Len(sections)
    /\ i <= MaxRefs
    /\ HasEndpoints(sections_list[sections[i].ref])

\* section.endpoints.connect(point) on a section of the component
Connect ==
    /\ Step
    /\ \E i \in 1..MaxRefs :
          /\ Reached(i)
          /\ LET ref == sections[i].ref
                 e == sections_list[ref].endpoints
             IN  \E point \in {e.left_lower, e.right_upper} :
                    LET r == connect(e, point, DefaultTol)
                    IN  /\ SetComp(WithEndpoints(Comp, ref, r.ep))
                        /\ last' = Outcome("connect",
                                           IF r.raised THEN "Exception" ELSE None,
                                           "None", 0, 0)
    /\ UNCHANGED <<self, mirror_operations, generated>>

\* section.endpoints.get_connected()
GetConnected ==
    /\ Step
    /\ \E i \in 1..MaxRefs :
          /\ Reached(i)
          /\ last' = Outcome("get_connected", None,
                             get_connected(sections_list[sections[i].ref].endpoints),
                             0, 0)
    /\ UNCHANGED <<self, sections, sections_list, actual_length,
                   mirror_operations, generated>>

\* section.endpoints.get_unconnected()
GetUnconnected ==
    /\ Step
    /\ \E i \in 1..MaxRefs :
          /\ Reached(i)
          /\ last' = Outcome("get_unconnected", None,
                             get_unconnected(sections_list[sections[i].ref].endpoints),
                             0, 0)
    /\ UNCHANGED <<self, sections, sections_list, actual_length,
                   mirror_operations, generated>>

Next ==
    \/ GenerateSampleOutline
    \/ GenerateTransmissionLine
    \/ GenerateResonator
    \/ AddSection
    \/ GenerateCpwFromPath
    \/ Draw
    \/ Move
    \/ Mirror
    \/ Connect
    \/ GetConnected
    \/ GetUnconnected

Spec == Init /\ [][Next]_vars

(***************************************************************************)
(* A free-standing endpoint pair, connected with any point and tolerance.  *)
(***************************************************************************)
Points == (0..MaxCoord) \X (0..MaxCoord)

Tolerances == 0..MaxTol

\* a call on ep: its arguments, the object before it, and its outcome
Call(op, raised, ret, point, tol, before) ==
    [op |-> op, raised |-> raised, ret |-> ret, point |-> point, tol |-> tol,
     before |-> before]

\* CPWEndpoints.__init__ as the section builders call it: on the pair
\* sort_endpoints returns (CPWStraight, CPWArc; the two points may
\* coincide) or on the anchor twice (Pad)
InitEP ==
    /\ self \in Outlines
    /\ sections = <<>>
    /\ sections_list = <<>>
    /\ actual_length = 0
    /\ mirror_operations = <<>>
    /\ generated = FALSE
    /\ steps = 0
    /\ \E p1, p2 \in Points :
          \E srt \in {sort_endpoints(p1, p2)} : ep = CPWEndpoints(srt[1], srt[2])
    /\ connects = 0
    /\ frame = NoFrame
    /\ last = Call("init", None, "None", <<0, 0>>, 0, ep)

StepEP ==
    /\ steps < MaxSteps
    /\ steps' = steps + 1
    /\ UNCHANGED <<compVars, frame>>

\* ep.connect(point, tol)
EPConnect ==
    /\ StepEP
    /\ \E point \in Points, tol \in Tolerances :
          \E r \in {connect(ep, point, tol)} :
              /\ ep' = r.ep
              /\ connects' = connects + (IF r.raised THEN 0 ELSE 1)
              /\ last' = Call("connect", IF r.raised THEN "Exception" ELSE None,
                              "None", point, tol, ep)

\* ep.get_connected()
EPGetConnected ==
    /\ StepEP
    /\ last' = Call("get_connected", None, get_connected(ep), <<0, 0>>, 0, ep)
    /\ UNCHANGED <<ep, connects>>

\* ep.get_unconnected()
EPGetUnconnected ==
    /\ StepEP
    /\ last' = Call("get_unconnected", None, get_unconnected(ep), <<0, 0>>, 0, ep)
    /\ UNCHANGED <<ep, connects>>

NextEP ==
    \/ EPConnect
    \/ EPGetConnected
    \/ EPGetUnconnected

SpecEP == InitEP /\ [][NextEP]_vars

(***************************************************************************)
(* Resonator.generate, run step by step: one step per iteration of the     *)
(* while loop of _generate_meanders.  The radii are multiples of           *)
(* 2 * PiDen, at which every arc length (a multiple of pi * radius / 2) is *)
(* a whole number of ticks.                                                *)
(***************************************************************************)
SearchResonators ==
    { r \in { Resonator(1000 * lk, 2 * (2 * PiDen * rk) + 100 * hk, 2 * PiDen * rk,
                        end, <<0, 0>>) :
              lk \in 1..MaxLengthK, hk \in 1..MaxHeightK, rk \in 1..MaxRadiusK,
              end \in {"arc", "straight"} } :
      \* assert max_height > arc_radius * 2.1
      r.max_height * 10 > r.arc_radius * 21 }

\* the locals of _generate_meanders; n_segments and last_height are unbound
\* (0 here) until an iteration accepts
Locals(pc, m_height, count, success, n_segments, last_height) ==
    [pc |-> pc, m_height |-> m_height, count |-> count, success |-> success,
     n_segments |-> n_segments, last_height |-> last_height]

InitMS ==
    /\ self \in SearchResonators
    /\ sections = <<>>
    /\ sections_list = <<>>
    /\ actual_length = 0
    /\ mirror_operations = <<>>
    /\ generated = FALSE
    /\ steps = 0
    /\ last = Outcome("init", None, "None", 0, 0)
    /\ ep = CPWEndpoints(<<0, 0>>, <<0, 0>>)
    /\ connects = 0
    /\ frame = Locals("generate", 0, 0, FALSE, 0, 0)

\* generate up to the while loop: the coupler, the spacer line, and the
\* initialisation of m_height, count and success
EnterSearch ==
    /\ frame.pc = "generate"
    /\ SetComp(_generate_spacer_line(_generate_transmission_coupler(Comp, self), self))
    /\ frame' = Locals("while", self.max_height - 2 * self.arc_radius, 0, FALSE, 0, 0)
    /\ UNCHANGED <<self, mirror_operations, generated, steps, last, ep, connects>>

\* a loop that is left on success only
LoopGuardUncapped(f) == ~f.success

\* while not success and count < 1000
LoopGuard(f) == ~f.success /\ f.count < MaxIter

\* m_len - n_segments * l_segment <= m_height
Acceptable(s, used, m_height) == Residue(s, used, s.gap, m_height) <= m_height

\* an iteration whose test passes
Accept ==
    /\ frame.pc = "while"
    /\ LoopGuard(frame)
    /\ Acceptable(self, actual_length, frame.m_height)
    /\ frame' = Locals("while", frame.m_height, frame.count + 1, TRUE,
                       NSegments(self, actual_length, self.gap, frame.m_height),
                       Residue(self, actual_length, self.gap, frame.m_height))
    /\ UNCHANGED <<compVars, steps, last, ep, connects>>

\* an iteration whose test fails
Reject ==
    /\ frame.pc = "while"
    /\ LoopGuard(frame)
    /\ ~Acceptable(self, actual_length, frame.m_height)
    /\ frame' = [frame EXCEPT !.m_height = Shrink(frame.m_height),
                              !.count = frame.count + 1]
    /\ UNCHANGED <<compVars, steps, last, ep, connects>>

\* the loop is left without success: _generate_meanders returns False and
\* generate discards the sections
ReturnFalse ==
    /\ frame.pc = "while"
    /\ ~LoopGuard(frame)
    /\ ~frame.success
    /\ SetComp(Discard(Comp))
    /\ frame' = [frame EXCEPT !.pc = "returned"]
    /\ last' = Outcome("generate", None, "False", 0, 0)
    /\ UNCHANGED <<self, mirror_operations, generated, steps, ep, connects>>

\* the loop is left with success: the meanders, the end cap and the move
Layout ==
    /\ frame.pc = "while"
    /\ ~LoopGuard(frame)
    /\ frame.success
    /\ \E mv \in {move(_generate_end_cap(MeanderLayout(Comp, self, frame), self,
                                         frame.n_segments), self.anchor)} :
          /\ SetComp(mv.c)
          /\ last' = Outcome("generate", mv.raised, "None", 0, 0)
    /\ self' = [self EXCEPT !.n_segments = frame.n_segments]
    /\ frame' = [frame EXCEPT !.pc = "returned"]
    /\ UNCHANGED <<mirror_operations, generated, steps, ep, connects>>

NextMS ==
    \/ EnterSearch
    \/ Accept
    \/ Reject
    \/ ReturnFalse
    \/ Layout

SpecMS == InitMS /\ [][NextMS]_vars

\* every call of generate runs on: no step that can be taken is put off
\* for ever (every step of NextMS changes frame)
FairSpecMS == SpecMS /\ WF_frame(NextMS)

(***************************************************************************)
(* TransmissionLine._generate_cpw_from_path, run step by step: one step    *)
(* per iteration of its for loop, over every path of at most MaxPathLen    *)
(* steps.  The method reads _angle from the section named                  *)
(* 'left lower pad'; of the section classes only CPWArc sets _angle, so    *)
(* the component here holds a CPWArc of that name.                         *)
(***************************************************************************)
\* the dictionaries a path may hold
StepChoices ==
    { [element |-> "straight", length |-> 0],
      [element |-> "straight", length |-> 3],
      [element |-> "left", radius |-> 4, angle |-> 90],
      [element |-> "left", radius |-> 4, angle |-> 180],
      [element |-> "right", radius |-> 4, angle |-> 90],
      [element |-> "right", radius |-> 4, angle |-> 180] }

StartPads ==
    { CPWArc("left lower pad", <<0, 0>>, 4, span, FALSE, 1, 2) :
      span \in { <<0, 0>>, <<0, 90>>, <<0, 180>>, <<90, 0>> } }

\* the locals of _generate_cpw_from_path: c, current_anchor, current_angle;
\* and, as history, the steps of the path taken so far and the heading the
\* loop started with
Interp(pc, c, current_anchor, current_angle, path, start_angle) ==
    [pc |-> pc, c |-> c, current_anchor |-> current_anchor,
     current_angle |-> current_angle, path |-> path, start_angle |-> start_angle]

\* an iteration: the dictionary it read, the constructor arguments it made
\* of it, and the exception it raised if any
Emitted(info, args, raised) ==
    [op |-> "iteration", info |-> info, args |-> args, raised |-> raised]

InitPI ==
    /\ self = Line(<<0, 0>>, <<40, 40>>, 4, 2)
    /\ \E pad \in StartPads :
          \E c \in {_add_section(EmptyComp, pad)} :
              /\ sections = c.sections
              /\ sections_list = c.list
              /\ actual_length = c.len
    /\ mirror_operations = <<>>
    /\ generated = FALSE
    /\ steps = 0
    /\ last = Outcome("init", None, "None", 0, 0)
    /\ ep = CPWEndpoints(<<0, 0>>, <<0, 0>>)
    /\ connects = 0
    /\ frame = Interp("call", 0, NoPoint, 0, <<>>, 0)

\* the method up to its for loop
EnterPath ==
    /\ frame.pc = "call"
    /\ \E pad \in {SectionOf(Comp, "left lower pad")} :
          frame' = Interp("for", 1, pad.endpoints.right_upper, pad._angle, <<>>,
                          pad._angle)
    /\ UNCHANGED <<compVars, steps, last, ep, connects>>

\* an iteration that runs to its end, on the next dictionary of the path
PathStep ==
    /\ frame.pc = "for"
    /\ Len(frame.path) < MaxPathLen
    /\ \E info \in StepChoices :
          \E it \in {PathIteration(Comp, self, info, frame.c, frame.current_anchor,
                                   frame.current_angle)} :
              /\ it.raised = None
              /\ SetComp(it.c)
              /\ frame' = Interp("for", frame.c + 1, it.current_anchor,
                                 it.current_angle, Append(frame.path, info),
                                 frame.start_angle)
              /\ last' = Emitted(info, ElementArgs(info, frame.current_angle), None)
    /\ UNCHANGED <<self, mirror_operations, generated, steps, ep, connects>>

\* an iteration that raises
PathStepRaises ==
    /\ frame.pc = "for"
    /\ Len(frame.path) < MaxPathLen
    /\ \E info \in StepChoices :
          \E it \in {PathIteration(Comp, self, info, frame.c, frame.current_anchor,
                                   frame.current_angle)} :
              /\ it.raised # None
              /\ SetComp(it.c)
              /\ frame' = Interp("raised", frame.c, it.current_anchor,
                                 it.current_angle, Append(frame.path, info),
                                 frame.start_angle)
              /\ last' = Emitted(info, ElementArgs(info, frame.current_angle),
                                 it.raised)
    /\ UNCHANGED <<self, mirror_operations, generated, steps, ep, connects>>

\* the path is exhausted: the method returns
PathReturn ==
    /\ frame.pc = "for"
    /\ frame' = [frame EXCEPT !.pc = "returned"]
    /\ UNCHANGED <<compVars, steps, last, ep, connects>>

NextPI ==
    \/ EnterPath
    \/ PathStep
    \/ PathStepRaises
    \/ PathReturn

SpecPI == InitPI /\ [][NextPI]_vars

(***************************************************************************)
(* sort_endpoints, called on any two points of the grid, then on its own   *)
(* result or on the same points in the other order.                        *)
(***************************************************************************)
\* a call of sort_endpoints: its arguments and result, and the arguments
\* and result of the call before it
Sorted(pc, args, ret, first_args, first_ret) ==
    [pc |-> pc, args |-> args, ret |-> ret,
     first_args |-> first_args, first_ret |-> first_ret]

InitSE ==
    /\ self \in Outlines
    /\ sections = <<>>
    /\ sections_list = <<>>
    /\ actual_length = 0
    /\ mirror_operations = <<>>
    /\ generated = FALSE
    /\ steps = 0
    /\ last = Outcome("init", None, "None", 0, 0)
    /\ ep = CPWEndpoints(<<0, 0>>, <<0, 0>>)
    /\ connects = 0
    /\ \E p1, p2 \in Points :
          frame = Sorted("call", <<p1, p2>>, NoPoint, NoPoint, NoPoint)

\* sort_endpoints(p1, p2)
SortEndpoints ==
    /\ frame.pc = "call"
    /\ frame' = Sorted("sorted", frame.args,
                       sort_endpoints(frame.args[1], frame.args[2]),
                       NoPoint, NoPoint)
    /\ UNCHANGED <<compVars, steps, last, ep, connects>>

\* sort_endpoints(*result)
SortResult ==
    /\ frame.pc = "sorted"
    /\ frame' = Sorted("resorted", frame.ret,
                       sort_endpoints(frame.ret[1], frame.ret[2]),
                       frame.args, frame.ret)
    /\ UNCHANGED <<compVars, steps, last, ep, connects>>

\* sort_endpoints(p2, p1)
SortSwapped ==
    /\ frame.pc = "sorted"
    /\ frame' = Sorted("swapped", <<frame.args[2], frame.args[1]>>,
                       sort_endpoints(frame.args[2], frame.args[1]),
                       frame.args, frame.ret)
    /\ UNCHANGED <<compVars, steps, last, ep, connects>>

NextSE ==
    \/ SortEndpoints
    \/ SortResult
    \/ SortSwapped

SpecSE == InitSE /\ [][NextSE]_vars

(***************************************************************************)
(* CPWStraight.__init__, called with any anchor of the grid, any           *)
(* axis-aligned heading and any length up to MaxLength (of either sign),   *)
(* and with the arguments of the specification's scenario A.               *)
(***************************************************************************)
StraightArgs ==
    { [anchor |-> anchor, angle |-> angle, length |-> length, gap |-> 1, width |-> 2] :
      anchor \in Points, angle \in {0, 90, 180, 270},
      length \in (0 - MaxLength)..MaxLength }
    \cup { [anchor |-> <<0, 0>>, angle |-> 0, length |-> 100, gap |-> 5, width |-> 4] }

\* a constructor call: its arguments and the object built
Constructed(pc, args, section) == [pc |-> pc, args |-> args, section |-> section]

InitST ==
    /\ self \in Outlines
    /\ sections = <<>>
    /\ sections_list = <<>>
    /\ actual_length = 0
    /\ mirror_operations = <<>>
    /\ generated = FALSE
    /\ steps = 0
    /\ last = Outcome("init", None, "None", 0, 0)
    /\ ep = CPWEndpoints(<<0, 0>>, <<0, 0>>)
    /\ connects = 0
    /\ \E args \in StraightArgs : frame = Constructed("call", args, None)

\* CPWStraight(name, anchor, angle, length, gap, width)
BuildStraight ==
    /\ frame.pc = "call"
    /\ frame' = Constructed("built", frame.args,
                            CPWStraight("straight", frame.args.anchor, frame.args.angle,
                                        frame.args.length, frame.args.gap,
                                        frame.args.width))
    /\ UNCHANGED <<compVars, steps, last, ep, connects>>

NextST ==
    \/ BuildStraight

SpecST == InitST /\ [][NextST]_vars

(***************************************************************************)
(* The default path of a TransmissionLine: _generate_standard_path and then *)
(* _generate_cpw_from_path on the path it stored, one iteration per step.   *)
(* The Pads of _generate_pads hold no _angle, and _generate_standard_path   *)
(* raises on them before it derives a path; here the sections named as the *)
(* pads are arcs of spans (0, 90) and (0, 270), which hold the _angle the   *)
(* method asserts and whose right upper docking points are self.start and  *)
(* self.end.                                                               *)
(***************************************************************************)
\* a line in a box of the given width
LineInBox(start, end, radius, offset, max_width) ==
    [Line(start, end, radius, offset) EXCEPT !.max_width = max_width]

DefaultLines ==
    { LineInBox(start, end, 4, offset, 40) :
      start \in { <<0, 0>>, <<2, 0>> },
      end \in { <<40, 40>>, <<38, 40>>, <<30, 40>>, <<40, 12>>, <<40, 0>>, <<40, 4>> },
      offset \in { 0 - 14, 0, 2, 14 } }
    \cup { LineInBox(<<0, 0>>, <<48, 40>>, 4, 0, 48) }

\* the sections named as the pads, anchored at self.start and self.end
AnglePads(s) ==
    _add_section(
        _add_section(EmptyComp,
                     CPWArc("left lower pad", s.start, s.arc_radius, <<0, 90>>,
                            FALSE, s.gap, s.width)),
        CPWArc("right upper pad", s.end, s.arc_radius, <<0, 270>>, FALSE,
               s.gap, s.width))

InitDP ==
    /\ self \in DefaultLines
    /\ \E c \in {AnglePads(self)} :
          /\ sections = c.sections
          /\ sections_list = c.list
          /\ actual_length = c.len
    /\ mirror_operations = <<>>
    /\ generated = FALSE
    /\ steps = 0
    /\ last = Outcome("init", None, "None", 0, 0)
    /\ ep = CPWEndpoints(<<0, 0>>, <<0, 0>>)
    /\ connects = 0
    /\ frame = Interp("generate", 0, NoPoint, 0, <<>>, 0)

\* _generate_standard_path: an assertion fails, or self.path is set
StandardPath ==
    /\ frame.pc = "generate"
    /\ \E r \in {_generate_standard_path(Comp, self)} :
          /\ self' = [self EXCEPT !.path = r.path]
          /\ frame' = [frame EXCEPT !.pc = IF r.raised = None THEN "call"
                                           ELSE "raised"]
          /\ last' = Outcome("_generate_standard_path", r.raised, "None", 0, 0)
    /\ UNCHANGED <<sections, sections_list, actual_length, mirror_operations,
                   generated, steps, ep, connects>>

\* the next iteration of the for loop over self.path
DefaultStep ==
    /\ frame.pc = "for"
    /\ frame.c <= Len(self.path)
    /\ \E info \in {self.path[frame.c]} :
          \E it \in {PathIteration(Comp, self, info, frame.c, frame.current_anchor,
                                   frame.current_angle)} :
              /\ SetComp(it.c)
              /\ frame' = Interp(IF it.raised = None THEN "for" ELSE "raised",
                                 IF it.raised = None THEN frame.c + 1 ELSE frame.c,
                                 it.current_anchor, it.current_angle,
                                 Append(frame.path, info), frame.start_angle)
              /\ last' = Emitted(info, ElementArgs(info, frame.current_angle),
                                 it.raised)
    /\ UNCHANGED <<self, mirror_operations, generated, steps, ep, connects>>

\* self.path is exhausted: the method returns
DefaultReturn ==
    /\ frame.pc = "for"
    /\ frame.c > Len(self.path)
    /\ frame' = [frame EXCEPT !.pc = "returned"]
    /\ UNCHANGED <<compVars, steps, last, ep, connects>>

NextDP ==
    \/ StandardPath
    \/ EnterPath
    \/ DefaultStep
    \/ DefaultReturn

SpecDP == InitDP /\ [][NextDP]_vars

(***************************************************************************)
(* Properties.                                                             *)
(***************************************************************************)
\* docking point p lies within distance tol of point
Within(p, point, tol) == distance_two_sq(point, p) <= tol * tol

AvailableLL(e, point, tol) == Within(e.left_lower, point, tol) /\ ~e.connected_ll

AvailableRU(e, point, tol) == Within(e.right_upper, point, tol) /\ ~e.connected_ru

\* C1: connect(point, tol) succeeds whenever a docking point is within tol
\* of point and unconnected, and then marks exactly one such docking point
\* connected; it raises only when no docking point is both within tol and
\* unconnected, and then changes nothing.
C1_ConnectTakesAnAvailablePoint ==
    last.op = "connect" =>
        LET b == last.before
            ll == AvailableLL(b, last.point, last.tol)
            ru == AvailableRU(b, last.point, last.tol)
        IN  /\ (ll \/ ru) =>
                 /\ last.raised = None
                 /\ \/ ll /\ ep = [b EXCEPT !.connected_ll = TRUE]
                    \/ ru /\ ep = [b EXCEPT !.connected_ru = TRUE]
            /\ ~(ll \/ ru) => (last.raised = "Exception" /\ ep = b)

\* C2: of the connect calls made on a freshly constructed endpoint pair, with
\* any points and tolerances, at most two succeed; a connect call made after
\* two have succeeded raises.
C2_AtMostTwoConnects ==
    /\ connects <= 2
    /\ (last.op = "connect" /\ last.before.connected_ll /\ last.before.connected_ru)
          => (last.raised = "Exception" /\ ep = last.before)

\* two connect calls have succeeded and a later one, aimed at a docking
\* point, has raised
C2_ThirdConnectRaised ==
    /\ connects = 2
    /\ last.op = "connect"
    /\ last.raised = "Exception"
    /\ last.before.connected_ll /\ last.before.connected_ru
    /\ \/ Within(ep.left_lower, last.point, last.tol)
       \/ Within(ep.right_upper, last.point, last.tol)

\* the connected flags of the object at position i of a section list
Flags(list, i) ==
    IF HasEndpoints(list[i])
    THEN << list[i].endpoints.connected_ll, list[i].endpoints.connected_ru >>
    ELSE << FALSE, FALSE >>

\* the number of connected flags that are true in a section list
FlagCount(list) ==
    Cardinality({ x \in (1..Len(list)) \X {1, 2} : Flags(list, x[1])[x[2]] })

EndpointOps ==
    {"connect", "get_connected", "get_unconnected", "move", "mirror", "draw"}

\* C3: a connected flag is false on a section just built, and across connect,
\* get_connected, get_unconnected, move, mirror and draw a flag that is true
\* stays true; a successful connect turns exactly one flag from false to
\* true, and the other operations turn none.
C3_FlagsMonotone ==
    [][ /\ last'.op = "_add_section" =>
              Flags(sections_list', Len(sections_list')) = << FALSE, FALSE >>
        /\ last'.op \in EndpointOps =>
              /\ Len(sections_list') = Len(sections_list)
              /\ \A i \in 1..Len(sections_list) : \A f \in {1, 2} :
                    Flags(sections_list, i)[f] => Flags(sections_list', i)[f]
              /\ FlagCount(sections_list') =
                    FlagCount(sections_list)
                    + (IF last'.op = "connect" /\ last'.raised = None THEN 1 ELSE 0)
      ]_vars

\* a section's flag, set by a connect, is still set after a move, a mirror
\* or a draw
C3_ConnectedThenMoved ==
    /\ last.op \in {"move", "mirror", "draw"}
    /\ FlagCount(sections_list) >= 1

\* C4: _add_section with the name of a section the component already holds
\* fails and leaves the dict, the list and the accumulated length unchanged.
C4_DuplicateNameRejected ==
    [][ (last'.op = "_add_section" /\ HasKey(sections, last'.ret)) =>
            /\ last'.raised # None
            /\ UNCHANGED <<sections, sections_list, actual_length>>
      ]_vars

RECURSIVE SumLengths(_, _)
SumLengths(list, i) ==
    IF i > Len(list) THEN 0 ELSE list[i].length + SumLengths(list, i + 1)

\* C5: in every reachable state the accumulated length is the sum of the
\* lengths of the sections the component holds.
C5_LengthIsSumOfSections == actual_length = SumLengths(sections_list, 1)

\* C6: whenever generate has completed successfully, for every kind of
\* component, generated is true.
C6_GenerateSetsGenerated ==
    (last.op = "generate" /\ last.raised = None /\ last.ret # "False") => generated

\* the meander search of a generate call made in the current state accepts
SearchAccepts ==
    MeanderSearch(self,
                  _generate_spacer_line(_generate_transmission_coupler(Comp, self),
                                        self).len,
                  self.gap, self.max_height - 2 * self.arc_radius, 0).success

\* C7: a Resonator.generate whose meander search does not accept returns
\* False and leaves the dict and the list empty and generated false.
C7_FailedSearchDiscards ==
    [][ (/\ last'.op = "generate"
         /\ self.cls = "Resonator"
         /\ self.end # "none"
         /\ ~SearchAccepts) =>
            /\ last'.raised = None
            /\ last'.ret = "False"
            /\ sections' = <<>>
            /\ sections_list' = <<>>
            /\ ~generated'
      ]_vars

\* a generate has returned False after building the coupler and the spacer
C7_SearchFailed ==
    /\ last.op = "generate"
    /\ last.ret = "False"
    /\ actual_length > 0

\* C8: when a connect call fails inside _generate_cpw_from_path, the
\* component is left with an empty section list.
C8_ConnectFailureRollsBack ==
    (last.op \in {"_generate_cpw_from_path", "generate"} /\ last.raised = "Exception")
        => (sections_list = <<>> /\ sections = <<>>)

\* C9: a draw on a component whose generated flag is false issues no draw
\* call and no clear call and changes nothing of the component; a draw that
\* issued a draw call was made with generated true.
C9_DrawOnlyWhenGenerated ==
    /\ [](last.op = "draw" /\ last.draws + last.clears > 0 => generated)
    /\ [][ (last'.op = "draw" /\ ~generated) =>
              /\ last'.draws = 0
              /\ last'.clears = 0
              /\ last'.raised = None
              /\ UNCHANGED compVars
         ]_vars

\* draw has been called on a component that holds sections and is not
\* generated
C9_DrawBeforeGenerate ==
    /\ last.op = "draw"
    /\ ~generated
    /\ sections_list # <<>>

\* element b is the primitive object a, at the place a was built
SameObject(a, b) == a.cls = b.cls /\ (IsShape(a) => a.points = b.points)

\* C10: after a draw on a generated component, whatever the number of queued
\* mirror operations, every section holds the same primitive objects in the
\* same order as before.
C10_DrawKeepsPrimitives ==
    [][ (last'.op = "draw" /\ generated) =>
            /\ Len(sections_list') = Len(sections_list)
            /\ \A i \in 1..Len(sections_list) :
                  /\ Len(sections_list'[i].elements) = Len(sections_list[i].elements)
                  /\ \A k \in 1..Len(sections_list[i].elements) :
                        SameObject(sections_list[i].elements[k],
                                   sections_list'[i].elements[k])
      ]_vars

\* C11: for end styles 'arc' and 'straight' the while loop of
\* _generate_meanders starts from m_height = max_height - 2 * arc_radius,
\* makes at most 1000 iterations, multiplies m_height by 0.95 in every
\* rejected iteration, makes no iteration after the first accepted one,
\* returns False only after the 1000th rejected iteration, and every call
\* returns.
C11_SearchTerminates ==
    /\ [](frame.pc \in {"while", "returned"} => frame.count <= MaxIter)
    /\ []((frame.pc = "while" /\ frame.count = 0) =>
              frame.m_height = self.max_height - 2 * self.arc_radius)
    /\ [][ (frame.pc = "while" /\ frame'.pc = "while") =>
              /\ ~frame.success
              /\ frame'.count = frame.count + 1
              /\ frame'.success =
                    (MLen(self, actual_length, frame.m_height, self.gap)
                       - (MLen(self, actual_length, frame.m_height, self.gap)
                            \div (TimesPi(self.arc_radius) + frame.m_height))
                         * (TimesPi(self.arc_radius) + frame.m_height)
                     <= frame.m_height)
              /\ frame'.m_height =
                    IF frame'.success THEN frame.m_height
                    ELSE (frame.m_height * ShrinkNum) \div ShrinkDen
         ]_vars
    /\ [][ (frame.pc = "while" /\ frame.success) => frame'.pc = "returned" ]_vars
    /\ []((frame.pc = "returned" /\ last.ret = "False") =>
              (~frame.success /\ frame.count = MaxIter))
    /\ <>(frame.pc = "returned")

\* a search has rejected 1000 iterations and generate has returned False
C11_SearchExhausted ==
    /\ frame.pc = "returned"
    /\ ~frame.success
    /\ frame.count = MaxIter
    /\ frame.m_height < self.max_height - 2 * self.arc_radius
    /\ last.op = "generate"
    /\ last.ret = "False"

\* C12: whenever the meander search accepts (end styles 'arc' and
\* 'straight', max_height > 2.1 * arc_radius), the accepted values satisfy
\* n_segments >= 0, 0 < m_height <= max_height - 2 * arc_radius and
\* 0 <= last_height <= m_height.
C12_AcceptedValuesInRange ==
    (frame.pc \in {"while", "returned"} /\ frame.success) =>
        /\ frame.n_segments >= 0
        /\ 0 < frame.m_height
        /\ frame.m_height <= self.max_height - 2 * self.arc_radius
        /\ 0 <= frame.last_height
        /\ frame.last_height <= frame.m_height

\* C13: when generate has succeeded (end styles 'arc' and 'straight'), the
\* accumulated length after the end cap, which is the sum of the lengths of
\* the emitted sections, equals the target length.
C13_LengthIsTarget ==
    (frame.pc = "returned" /\ frame.success /\ last.raised = None) =>
        /\ actual_length = SumLengths(sections_list, 1)
        /\ actual_length = self.length

\* the docking point of a section that is not the point the section was
\* anchored at
OpenPoint(section) ==
    IF section.endpoints.left_lower = section.anchor
    THEN section.endpoints.right_upper
    ELSE section.endpoints.left_lower

\* C14: in a successfully generated Resonator every section after the first
\* is anchored at the open docking point of the section before it in the
\* section order, for both parities of n_segments and both end styles.
C14_AnchoredAtOpenPoint ==
    (frame.pc = "returned" /\ frame.success /\ last.raised = None) =>
        \A k \in 2..Len(sections_list) :
            sections_list[k].anchor = OpenPoint(sections_list[k - 1])

\* the direction in which an arc built with straighten_other_end false is
\* travelled where it starts (at its anchor) and where it ends: the radial
\* edge of its inner element there, of length gap, turned by a quarter in
\* the sense of the arc
StartHeading(arc) ==
    rotate_vec(Sub(arc.elements[1].points[2], arc.elements[1].points[1]),
               IF arc._angle >= 0 THEN 90 ELSE 270)

EndHeading(arc) ==
    rotate_vec(Sub(arc.elements[1].points[3], arc.elements[1].points[4]),
               IF arc._angle >= 0 THEN 90 ELSE 270)

\* the closing arc of a generated resonator: the section before the end cap
FinalArc == sections_list[Len(sections_list) - 1]

\* the last straight before the closing arc
LastStraight == sections_list[Len(sections_list) - 2]

\* C15: with end style 'arc' the closing arc spans 90 degrees, counter-
\* clockwise for even n_segments and clockwise for odd n_segments, starts
\* in the direction of the straight before it, and is travelled in the same
\* direction (that of the x axis) at its open end for both parities.
C15_ClosingArcFacesSameWay ==
    (frame.pc = "returned" /\ frame.success /\ last.raised = None /\ self.end = "arc") =>
        /\ FinalArc.name = "final arc"
        /\ FinalArc._angle = (IF frame.n_segments % 2 = 0 THEN 90 ELSE -90)
        /\ StartHeading(FinalArc) = rotate_vec(<<self.gap, 0>>, LastStraight.angle)
        /\ EndHeading(FinalArc) = <<self.gap, 0>>

\* a resonator with end style 'arc' and an odd number of segments has been
\* generated
C15_OddClosingArc ==
    /\ frame.pc = "returned"
    /\ frame.success
    /\ last.raised = None
    /\ self.end = "arc"
    /\ frame.n_segments % 2 = 1
    /\ frame.n_segments >= 1

\* the left angles minus the right angles of a path, from its step k on
RECURSIVE TurnSum(_, _)
TurnSum(path, k) ==
    IF k > Len(path) THEN 0
    ELSE (IF path[k].element = "left" THEN path[k].angle
          ELSE IF path[k].element = "right" THEN 0 - path[k].angle
          ELSE 0) + TurnSum(path, k + 1)

\* C16: a step of the path interpreter at running heading H: 'straight'
\* builds a straight at angle H and leaves H unchanged; 'left' with angle a
\* builds an arc with span (H - 90, H + a - 90), straighten_other_end false,
\* and H becomes H + a; 'right' with angle a builds an arc with span
\* (H + a + 90, H + 90), straighten_other_end true, and H becomes H - a.  So
\* the heading after the steps taken is the starting heading plus the left
\* angles minus the right angles.
C16_HeadingFollowsTurns ==
    /\ [][ (frame.pc = "for" /\ frame'.pc = "for") =>
             LET H == frame.current_angle
                 info == last'.info
                 a == last'.args
                 built == sections_list'[Len(sections_list')]
             IN  /\ last'.op = "iteration"
                 /\ info = frame'.path[Len(frame'.path)]
                 /\ info.element = "straight" =>
                       /\ a.cls = "CPWStraight"
                       /\ a.angle = H
                       /\ built.cls = "CPWStraight"
                       /\ built.angle = H
                       /\ frame'.current_angle = H
                 /\ info.element = "left" =>
                       /\ a.cls = "CPWArc"
                       /\ a.angle_span = <<H - 90, H + info.angle - 90>>
                       /\ ~a.straighten_other_end
                       /\ built.cls = "CPWArc"
                       /\ built._angle = info.angle
                       /\ frame'.current_angle = H + info.angle
                 /\ info.element = "right" =>
                       /\ a.cls = "CPWArc"
                       /\ a.angle_span = <<H + info.angle + 90, H + 90>>
                       /\ a.straighten_other_end
                       /\ built.cls = "CPWArc"
                       /\ built._angle = 0 - info.angle
                       /\ frame'.current_angle = H - info.angle
         ]_vars
    /\ [](frame.pc \in {"for", "returned"} =>
             frame.current_angle = frame.start_angle + TurnSum(frame.path, 1))

\* a single left step of 90 degrees from heading 0 has been taken: the arc
\* spans (-90, 0) and the heading is 90
C16_SingleLeftTurn ==
    /\ frame.pc = "returned"
    /\ frame.start_angle = 0
    /\ frame.path = << [element |-> "left", radius |-> 4, angle |-> 90] >>
    /\ last.op = "iteration"
    /\ last.args.angle_span = <<-90, 0>>
    /\ frame.current_angle = 90

\* the docking points of an endpoint pair whose flag is set
ConnectedPoints(e) ==
    (IF e.connected_ll THEN {e.left_lower} ELSE {})
        \cup (IF e.connected_ru THEN {e.right_upper} ELSE {})

\* the number of flags of an endpoint pair that are set
Connected(e) ==
    (IF e.connected_ll THEN 1 ELSE 0) + (IF e.connected_ru THEN 1 ELSE 0)

\* the docking points of an endpoint pair whose flag is not set
UnconnectedPoints(e) ==
    (IF e.connected_ll THEN {} ELSE {e.left_lower})
        \cup (IF e.connected_ru THEN {} ELSE {e.right_upper})

GeometricPreconditions(s) ==
    /\ \/ Abs(s.end[1] - s.start[1]) >= s.arc_radius * 2
       \/ s.end[1] = s.start[1]
    /\ \/ Abs(s.end[2] - s.start[2]) >= s.arc_radius * 2
       \/ s.end[2] = s.start[2]
    /\ (s.end[1] - s.start[1]) + (s.end[2] - s.start[2]) # 0
    /\ s.max_width \div 2 - s.start[1] - s.center_offset > s.arc_radius * 2

\* C18: TransmissionLine.generate on a transmission line that satisfies the
\* geometric preconditions completes without raising and leaves the two
\* pads followed by the sections 'cpw element 1' .. 'cpw element 7'.
C18_TransmissionLineGenerates ==
    (/\ last.op = "generate"
     /\ self.cls = "TransmissionLine"
     /\ steps = 1
     /\ GeometricPreconditions(self)) =>
        /\ last.raised = None
        /\ Len(sections_list) = 9
        /\ sections_list[1].name = "left lower pad"
        /\ sections_list[2].name = "right upper pad"
        /\ \A k \in 1..7 : sections_list[2 + k].name = Name("cpw element", k)

\* point p comes no later than point q: smaller x, or equal x and
\* smaller or equal y
NoLater(p, q) == p[1] < q[1] \/ (p[1] = q[1] /\ p[2] <= q[2])

\* C19: sort_endpoints returns, for every two points, a pair that is a
\* permutation of its arguments, ordered by ascending x and on equal x by
\* ascending y; applied to its own result it returns that result; and for
\* two distinct points the result is the same whichever argument came first.
C19_SortIsCanonical ==
    /\ frame.pc \in {"sorted", "resorted", "swapped"} =>
          /\ Len(frame.ret) = 2
          /\ \/ frame.ret = frame.args
             \/ frame.ret = <<frame.args[2], frame.args[1]>>
          /\ NoLater(frame.ret[1], frame.ret[2])
    /\ frame.pc = "resorted" => frame.ret = frame.args
    /\ (frame.pc = "swapped" /\ frame.args[1] # frame.args[2]) =>
          frame.ret = frame.first_ret

\* two distinct points with the same x, given with the higher one first,
\* have been sorted, and then sorted again in the other order
C19_TieBrokenOnY ==
    /\ frame.pc = "swapped"
    /\ frame.first_args[1][1] = frame.first_args[2][1]
    /\ frame.first_args[1][2] > frame.first_args[2][2]
    /\ frame.first_ret = <<frame.first_args[2], frame.first_args[1]>>
    /\ frame.ret = frame.first_ret

\* C20: in every reachable state, every endpoint pair held by a section of
\* the component (straight, arc with either straighten_other_end setting,
\* pad) is canonically ordered: left_lower has the smaller x, or equal x and
\* smaller or equal y, compared with right_upper; connect, move, mirror and
\* draw preserve this.
C20_EndpointsCanonicallyOrdered ==
    \A i \in 1..Len(sections_list) :
        HasEndpoints(sections_list[i]) =>
            NoLater(sections_list[i].endpoints.left_lower,
                    sections_list[i].endpoints.right_upper)

\* after a move, a mirror or a draw the component holds a straight whose
\* anchor is its right_upper docking point, and an arc
C20_SortedThenMoved ==
    /\ last.op \in {"move", "mirror", "draw"}
    /\ \E i \in 1..Len(sections_list) :
          /\ sections_list[i].cls = "CPWStraight"
          /\ sections_list[i].endpoints.right_upper = sections_list[i].anchor
          /\ sections_list[i].endpoints.left_lower # sections_list[i].anchor
    /\ \E i \in 1..Len(sections_list) :
          /\ sections_list[i].cls = "CPWArc"
          /\ sections_list[i].endpoints.left_lower # sections_list[i].endpoints.right_upper

\* the docking points of e whose flag has the value want, left_lower first
Qualifying(e, want) ==
    (IF e.connected_ll = want THEN <<e.left_lower>> ELSE <<>>)
        \o (IF e.connected_ru = want THEN <<e.right_upper>> ELSE <<>>)

\* a getter's result for the qualifying points q: both, or the only one
\* and None, or None twice
Reported(q) ==
    IF Len(q) = 2 THEN q
    ELSE IF Len(q) = 1 THEN <<q[1], NoPoint>>
    ELSE <<NoPoint, NoPoint>>

\* C21: in every state get_connected returns the docking points whose flag
\* is true and get_unconnected those whose flag is false: (left_lower,
\* right_upper) when both qualify, the only one and None when one
\* qualifies, (None, None) when none does; together the two results hold
\* each docking point once.
C21_GettersPartition ==
    /\ get_connected(ep) = Reported(Qualifying(ep, TRUE))
    /\ get_unconnected(ep) = Reported(Qualifying(ep, FALSE))
    /\ Len(Qualifying(ep, TRUE)) + Len(Qualifying(ep, FALSE)) = 2
    /\ last.op = "get_connected" =>
          (last.before = ep /\ last.ret = Reported(Qualifying(ep, TRUE)))
    /\ last.op = "get_unconnected" =>
          (last.before = ep /\ last.ret = Reported(Qualifying(ep, FALSE)))

\* get_connected has been called on a pair of two distinct points of which
\* only right_upper is connected
C21_OnlyRightUpperConnected ==
    /\ last.op = "get_connected"
    /\ ep.connected_ru /\ ~ep.connected_ll
    /\ ep.left_lower # ep.right_upper
    /\ last.ret = <<ep.right_upper, NoPoint>>

\* the far end of a straight of length L from anchor A at heading theta
FarEnd(A, theta, L) == Add(A, Scale(L, << Cos(theta), Sin(theta) >>))

\* point p lies on the line through A at heading theta
OnLine(p, A, theta) ==
    (p[1] - A[1]) * Sin(theta) - (p[2] - A[2]) * Cos(theta) = 0

\* C22: a CPWStraight built with length L >= 0, anchor A and an
\* axis-aligned heading theta has the docking points A and
\* A + L * (cos theta, sin theta), in canonical order; their distance is L
\* and both lie on the line through A at heading theta.
C22_StraightEndpoints ==
    (frame.pc = "built" /\ frame.args.length >= 0) =>
        LET e == frame.section.endpoints
            A == frame.args.anchor
            L == frame.args.length
            theta == frame.args.angle
        IN  /\ \/ (e.left_lower = A /\ e.right_upper = FarEnd(A, theta, L))
               \/ (e.right_upper = A /\ e.left_lower = FarEnd(A, theta, L))
            /\ NoLater(e.left_lower, e.right_upper)
            /\ distance_two_sq(e.left_lower, e.right_upper) = L * L
            /\ OnLine(e.left_lower, A, theta)
            /\ OnLine(e.right_upper, A, theta)
            /\ frame.section.length = L
            /\ ~e.connected_ll /\ ~e.connected_ru

\* the straight of scenario A has been built: length 100, heading 0, anchor
\* (0, 0), docking points (0, 0) and (100, 0)
C22_ScenarioA ==
    /\ frame.pc = "built"
    /\ frame.args.length = 100
    /\ frame.args.angle = 0
    /\ frame.args.anchor = <<0, 0>>
    /\ frame.section.endpoints.left_lower = <<0, 0>>
    /\ frame.section.endpoints.right_upper = <<100, 0>>

\* C23: the length recorded for the end cap of a generated resonator, and
\* so the amount the cap adds to the accumulated length, is the conductor
\* width of the waveguide.
C23_CapLengthIsWidth ==
    (frame.pc = "returned" /\ frame.success /\ last.raised = None) =>
        LET cap == sections_list[Len(sections_list)]
        IN  /\ cap.cls = "CPWCap"
            /\ cap.length = self.width
            /\ actual_length =
                  SumLengths(SubSeq(sections_list, 1, Len(sections_list) - 1), 1)
                  + self.width

\* the endpoint pair e displaced by d
ShiftedEndpoints(e, d) ==
    [e EXCEPT !.left_lower = Add(e.left_lower, d),
              !.right_upper = Add(e.right_upper, d)]

\* C24: a move by shift (here (1, -2)) that does not raise displaces every
\* vertex of every primitive of every section and every section's docking
\* points by shift, and leaves the section order, names, lengths, the
\* accumulated length and the connection flags unchanged.
C24_MoveDisplacesEverything ==
    [][ (last'.op = "move" /\ last'.raised = None) =>
            /\ Len(sections_list') = Len(sections_list)
            /\ sections' = sections
            /\ actual_length' = actual_length
            /\ \A i \in 1..Len(sections_list) :
                  /\ sections_list'[i].name = sections_list[i].name
                  /\ sections_list'[i].length = sections_list[i].length
                  /\ Len(sections_list'[i].elements) = Len(sections_list[i].elements)
                  /\ \A k \in 1..Len(sections_list[i].elements) :
                        IsShape(sections_list[i].elements[k]) =>
                            sections_list'[i].elements[k].points =
                                Translate(sections_list[i].elements[k].points,
                                          <<1, -2>>)
                  /\ HasEndpoints(sections_list[i]) =>
                        sections_list'[i].endpoints =
                            ShiftedEndpoints(sections_list[i].endpoints, <<1, -2>>)
      ]_vars

\* the sections a successful generate leaves, in order
Generated == sections_list

\* the number of closing arcs the end style asks for
ClosingArcs == IF self.end = "arc" THEN 1 ELSE 0

C26_GenerateDefinedOutcome ==
    (self.cls = "Resonator" /\ last.op = "generate" /\ steps = 1) =>
        /\ last.raised = None
        /\ last.ret = "False" => (sections_list = <<>> /\ sections = <<>>)

\* the docking point of the pad of the given name that the line attaches to
PadDock(name) == SectionOf(Comp, name).endpoints.right_upper

\* C27: for every input the assertions of _generate_standard_path accept,
\* interpreting the default path from the start pad's docking point with
\* heading 90 leaves the running anchor at the end pad's docking point with
\* heading 90.
C27_DefaultPathReachesEndPad ==
    (frame.pc = "returned" /\ self.path # <<>>) =>
        /\ frame.start_angle = 90
        /\ frame.current_anchor = PadDock("right upper pad")
        /\ frame.current_angle = 90

\* C28: for every input the assertions of _generate_standard_path accept,
\* each of the three 'straight' steps of the default path has a length that
\* is not negative.
C28_StraightsNonNegative ==
    (last.op = "_generate_standard_path" /\ last.raised = None) =>
        \A k \in 1..Len(self.path) :
            self.path[k].element = "straight" => self.path[k].length >= 0

\* C29: a connect call that raises leaves the endpoint pair as it was: both
\* flags and both docking points are unchanged, and get_connected and
\* get_unconnected return after the call what they returned before it.
C29_FailedConnectChangesNothing ==
    (last.op = "connect" /\ last.raised = "Exception") =>
        /\ ep.connected_ll = last.before.connected_ll
        /\ ep.connected_ru = last.before.connected_ru
        /\ ep.left_lower = last.before.left_lower
        /\ ep.right_upper = last.before.right_upper
        /\ get_connected(ep) = get_connected(last.before)
        /\ get_unconnected(ep) = get_unconnected(last.before)

\* a connect that raised on a pair whose right upper point alone is connected
C29_RaisedOnHalfConnected ==
    /\ last.op = "connect" /\ last.raised = "Exception"
    /\ last.before.connected_ru /\ ~last.before.connected_ll

\* the direction of travel of a section headed at the given angle, as a
\* vector of length gap
Heading(angle) == rotate_vec(<<self.gap, 0>>, angle)

\* C30: in a successfully generated Resonator the heading of the end cap is
\* the direction of travel at the open end of the section it terminates:
\* the heading of the last meander straight for end style 'straight', the
\* exit direction of the closing arc for end style 'arc', for both parities
\* of n_segments.
C30_CapHeadingFollowsLine ==
    (frame.pc = "returned" /\ frame.success /\ last.raised = None) =>
        LET cap == sections_list[Len(sections_list)]
            terminated == sections_list[Len(sections_list) - 1]
        IN  /\ cap.cls = "CPWCap"
            /\ Heading(cap.angle) =
                  IF self.end = "arc" THEN EndHeading(terminated)
                  ELSE Heading(terminated.angle)

====
